---- MODULE Spec2Model ----
(***************************************************************************)
(* MPRIS media player plugin: the D-Bus controller                         *)
(* (src/mpris_dbus_controller/__init__.py) and the launcher plugin that    *)
(* drives it (src/__init__.py), against a session bus on which players     *)
(* register and vanish.                                                    *)
(*                                                                         *)
(* Python str values are TLA+ strings; Len, SubSeq and \o act on them      *)
(* character by character.  Every operation is one action: the handler     *)
(* runs to completion (or to the exception that ends it) between two bus   *)
(* events.  The last operation's name, return value, exception and the     *)
(* calls it made on the player's proxy are kept in op, ret, exc and calls. *)
(***************************************************************************)
EXTENDS Integers, Sequences, FiniteSets, TLC

VARIABLES
    names,       \* session bus: the registered bus names, in ListNames order
    owner,       \* session bus: owner[n] = unique connection owning name n (0: none)
    bus_ok,      \* session bus: whether the bus answers at all
    remote,      \* remote[n] = the properties of the player serving name n
    bus_app,     \* MPRISDBusController.bus_app
    proxy,       \* MPRISDBusController.proxy
    interface,   \* MPRISDBusController.interface
    properties,  \* MPRISDBusController.properties
    op,          \* last operation: its name
    arg,         \* last operation: its argument (a str), "" if none
    ret,         \* last operation: its return value (tagged), if it returned
    exc,         \* last operation: the exception that left it, "none" if none
    calls,       \* last operation: the calls made on the player's proxy, in order
    before       \* last operation: bus_app and the handles when it began

vars == <<names, owner, bus_ok, remote, bus_app, proxy, interface, properties,
          op, arg, ret, exc, calls, before>>

busVars == <<names, owner, bus_ok>>
handleVars == <<proxy, interface, properties>>

-----------------------------------------------------------------------------
(* Python values *)

PyNone == [tag |-> "None", v |-> "None"]
PyStr(s) == [tag |-> "str", v |-> s]
PyInt(i) == [tag |-> "int", v |-> i]
PyBool(b) == [tag |-> "bool", v |-> b]
PyDict(d) == [tag |-> "dict", v |-> d]
PyList(l) == [tag |-> "list", v |-> l]

Last(s) == s[Len(s)]

\* the value of an expression, evaluated once: the element of a one-element set
The(S) == CHOOSE x \in S : TRUE

\* str.startswith
startswith(s, p) == Len(s) >= Len(p) /\ SubSeq(s, 1, Len(p)) = p

\* the `in` operator on two str
contains(s, t) == \E i \in 1..(Len(s) - Len(t) + 1) : SubSeq(s, i, i + Len(t) - 1) = t

\* the tokens of s from position start on, scanning from position i
RECURSIVE SplitFrom(_, _, _, _)
SplitFrom(s, sep, start, i) ==
    IF i > Len(s) THEN <<SubSeq(s, start, Len(s))>>
    ELSE IF SubSeq(s, i, i) = sep
    THEN <<SubSeq(s, start, i - 1)>> \o SplitFrom(s, sep, i + 1, i + 1)
    ELSE SplitFrom(s, sep, start, i + 1)

\* str.split(sep) for a one-character separator
split(s, sep) == SplitFrom(s, sep, 1, 1)

\* str.strip() (blanks only)
RECURSIVE strip(_)
strip(s) ==
    IF Len(s) > 0 /\ SubSeq(s, 1, 1) = " " THEN strip(SubSeq(s, 2, Len(s)))
    ELSE IF Len(s) > 0 /\ SubSeq(s, Len(s), Len(s)) = " " THEN strip(SubSeq(s, 1, Len(s) - 1))
    ELSE s

Digits == "0123456789"
IsDigit(c) == \E d \in 1..10 : SubSeq(Digits, d, d) = c
DigitVal(c) == (CHOOSE d \in 1..10 : SubSeq(Digits, d, d) = c) - 1

\* the digits part of an int literal: digits, single underscores between them
IsDigitRun(b) ==
    /\ Len(b) >= 1
    /\ IsDigit(SubSeq(b, 1, 1))
    /\ IsDigit(SubSeq(b, Len(b), Len(b)))
    /\ \A i \in 1..Len(b) : IsDigit(SubSeq(b, i, i)) \/ SubSeq(b, i, i) = "_"
    /\ \A i \in 1..(Len(b) - 1) : ~(SubSeq(b, i, i) = "_" /\ SubSeq(b, i + 1, i + 1) = "_")

IntBody(t) ==
    LET u == strip(t)
    IN  IF Len(u) > 0 /\ SubSeq(u, 1, 1) \in {"+", "-"} THEN SubSeq(u, 2, Len(u)) ELSE u

\* whether int(t) returns (otherwise it raises ValueError)
IsIntLiteral(t) == IsDigitRun(IntBody(t))

RECURSIVE DigitRunVal(_, _)
DigitRunVal(b, acc) ==
    IF Len(b) = 0 THEN acc
    ELSE IF SubSeq(b, 1, 1) = "_" THEN DigitRunVal(SubSeq(b, 2, Len(b)), acc)
    ELSE DigitRunVal(SubSeq(b, 2, Len(b)), 10 * acc + DigitVal(SubSeq(b, 1, 1)))

\* int(t) for a str t with IsIntLiteral(t)
int(t) ==
    LET u == strip(t)
    IN  IF Len(u) > 0 /\ SubSeq(u, 1, 1) = "-" THEN 0 - DigitRunVal(IntBody(t), 0)
        ELSE DigitRunVal(IntBody(t), 0)

RECURSIVE str_nat(_)
str_nat(n) ==
    IF n < 10 THEN SubSeq(Digits, n + 1, n + 1)
    ELSE str_nat(n \div 10) \o SubSeq(Digits, (n % 10) + 1, (n % 10) + 1)

\* str(n) for an int n
str_int(n) == IF n < 0 THEN "-" \o str_nat(0 - n) ELSE str_nat(n)

\* f"{n:02}"
fmt02(n) == LET s == str_int(n) IN IF Len(s) < 2 THEN "0" \o s ELSE s

-----------------------------------------------------------------------------
(* The session bus and the players on it *)

INTERFACE == "org.mpris.MediaPlayer2.Player"
Prefix == "org.mpris.MediaPlayer2."
DEFAULT_BUS_NAME == "spotify"

SpotifyName == "org.mpris.MediaPlayer2.spotify"
VlcName == "org.mpris.MediaPlayer2.vlc"
VlcInstanceName == "org.mpris.MediaPlayer2.vlc.instance1234"
KdeConnectName == "org.mpris.MediaPlayer2.kdeconnect.mpris_1"
UniqueName == ":1.57"
NotificationsName == "org.freedesktop.Notifications"

\* every name that may be registered on the bus
BusNames == {SpotifyName, VlcName, VlcInstanceName, KdeConnectName, UniqueName,
             NotificationsName}

\* the names behind which a media player answers
PlayerNames == {n \in BusNames : startswith(n, Prefix)}

MetadataKeys == {"xesam:title", "xesam:artist", "xesam:album", "xesam:albumArtist",
                 "xesam:trackNumber", "xesam:url", "mpris:artUrl", "mpris:length",
                 "mpris:trackid"}

NoMetadata == [k \in {} |-> ""]

\* a track with every key present
FullMetadata ==
    [k \in MetadataKeys |->
        CASE k = "xesam:title" -> "Song"
          [] k = "xesam:artist" -> <<"Artist", "Guest">>
          [] k = "xesam:album" -> "Album"
          [] k = "xesam:albumArtist" -> <<"Band">>
          [] k = "xesam:trackNumber" -> 7
          [] k = "xesam:url" -> "file:///song"
          [] k = "mpris:artUrl" -> "file:///art"
          [] k = "mpris:length" -> 180000000
          [] k = "mpris:trackid" -> "/track/1"]

\* a player as it is when it has just started
InitialPlayer ==
    [PlaybackStatus |-> "Stopped", Position |-> 0, Shuffle |-> FALSE,
     LoopStatus |-> "None", Metadata |-> NoMetadata]

Registered(n) == \E i \in 1..Len(names) : names[i] = n

\* dict.get(key, default)
get(m, k, default) == IF k \in DOMAIN m THEN m[k] ELSE default

-----------------------------------------------------------------------------
(* Connection handles: None, or a proxy object bound to the unique connection  *)
(* that owned the service name when bus.get_object resolved it                 *)

None == [service |-> "", owner |-> 0]

\* a call through handle h is answered iff the bus answers and the connection
\* the handle is bound to still owns the name
Reachable(h) ==
    /\ bus_ok
    /\ h # None
    /\ h.service \in BusNames
    /\ Registered(h.service)
    /\ owner[h.service] = h.owner

BusCall(h, member, args) == [service |-> h.service, member |-> member, args |-> args]

Ok(v, cs) == [exc |-> "none", v |-> v, calls |-> cs]
Raise(e, cs) == [exc |-> e, v |-> PyNone, calls |-> cs]

-----------------------------------------------------------------------------
(* Discovery *)

\* as _get_available_bus_names would be if a failed query still produced names
get_available_bus_names_ignoring_failure ==
    LET IsPlayer(s) == startswith(s, Prefix)
        Keep(name) == ~(startswith(name, ":") \/ contains(name, "instance"))
    IN  SelectSeq(SelectSeq(names, IsPlayer), Keep)

get_available_bus_names ==
    LET IsPlayer(s) == startswith(s, Prefix)
        Keep(name) == ~(startswith(name, ":") \/ contains(name, "instance"))
    IN  IF bus_ok THEN SelectSeq(SelectSeq(names, IsPlayer), Keep) ELSE <<>>

get_available_bus_apps ==
    LET bus_names == get_available_bus_names
    IN  [i \in 1..Len(bus_names) |-> Last(split(bus_names[i], "."))]

get_current_bus_app == bus_app

is_bus_app_available(app) ==
    LET apps == get_available_bus_apps
    IN  \E i \in 1..Len(apps) : apps[i] = app

is_current_bus_app_available == is_bus_app_available(bus_app)

is_current_bus_app_active == is_current_bus_app_available /\ proxy # None

-----------------------------------------------------------------------------
(* Connection lifecycle *)

\* bus.get_object(name, path): the proxy, or None when it raises
get_object(name) ==
    IF bus_ok /\ name \in BusNames /\ Registered(name)
    THEN [service |-> name, owner |-> owner[name]]
    ELSE None

NoHandles == [proxy |-> None, interface |-> None, properties |-> None]
Handles == [proxy |-> proxy, interface |-> interface, properties |-> properties]
Snapshot == [bus_app |-> bus_app, handles |-> Handles]

\* as activate_bus_app would be if it never stored the handles
activate_bus_app_not_binding(h, app) == h

\* as activate_bus_app would be if it connected to the service of its argument
activate_bus_app_of_argument(h, app) ==
    LET p == get_object(Prefix \o app)
    IN  IF p = None THEN h
        ELSE [proxy |-> p, interface |-> p, properties |-> p]

\* as activate_bus_app would be if it did not store self.properties
activate_bus_app_without_properties(h, app) ==
    LET p == get_object(Prefix \o bus_app)
    IN  IF p = None THEN h
        ELSE [proxy |-> p, interface |-> p, properties |-> h.properties]

\* the three handles after activate_bus_app(app) called with handles h:
\* get_object raising leaves all three as they were
activate_bus_app(h, app) ==
    LET p == get_object(Prefix \o bus_app)
    IN  IF p = None THEN h
        ELSE [proxy |-> p, interface |-> p, properties |-> p]

activate_current_bus_app(h) == activate_bus_app(h, bus_app)

\* as deactivate_bus_app would be if it left the handles in place
deactivate_bus_app_keeping == Handles

deactivate_bus_app == NoHandles

\* MPRISDBusController.__init__ once self.bus_app is set: the handles of the
\* new controller
init_handles ==
    IF is_current_bus_app_available THEN activate_current_bus_app(NoHandles)
    ELSE NoHandles

-----------------------------------------------------------------------------
(* Player status and metadata: each getter, given self.properties *)

\* self.properties.Get(INTERFACE, prop); v is the raw remote value
Get(p, prop) ==
    LET c == BusCall(p, "Get", <<INTERFACE, prop>>)
    IN  IF Reachable(p)
        THEN [exc |-> "none", v |-> remote[p.service][prop], calls |-> <<c>>]
        ELSE [exc |-> "DBusException", v |-> 0, calls |-> <<c>>]

\* as get_playback_status would be if it caught the failure of the bus call
get_playback_status_catching(p) ==
    IF p = None THEN Ok(PyStr("Stopped"), <<>>)
    ELSE LET g == Get(p, "PlaybackStatus")
         IN  IF g.exc # "none" THEN Ok(PyStr("Stopped"), g.calls)
             ELSE Ok(PyStr(g.v), g.calls)

get_playback_status(p) ==
    IF p = None THEN Ok(PyStr("Stopped"), <<>>)
    ELSE LET g == Get(p, "PlaybackStatus")
         IN  IF g.exc # "none" THEN Raise(g.exc, g.calls)
             ELSE Ok(PyStr(g.v), g.calls)

get_position(p) ==
    IF p = None THEN Ok(PyInt(0), <<>>)
    ELSE LET g == Get(p, "Position")
         IN  IF g.exc # "none" THEN Raise(g.exc, g.calls)
             ELSE Ok(PyInt(g.v), g.calls)

\* the dict get_metadata builds from the remote mapping m
\* as get_metadata would be if the url defaulted like the text fields
normalize_url_unknown(m) ==
    [title |-> get(m, "xesam:title", "Unknown"),
     artist |-> get(m, "xesam:artist", <<"Unknown">>)[1],
     album |-> get(m, "xesam:album", "Unknown"),
     album_artist |-> get(m, "xesam:albumArtist", <<"Unknown">>)[1],
     track_number |-> get(m, "xesam:trackNumber", 0),
     url |-> get(m, "xesam:url", "Unknown"),
     art_url |-> get(m, "mpris:artUrl", ""),
     length |-> get(m, "mpris:length", 0),
     track_id |-> get(m, "mpris:trackid", "")]

normalize(m) ==
    [title |-> get(m, "xesam:title", "Unknown"),
     artist |-> get(m, "xesam:artist", <<"Unknown">>)[1],
     album |-> get(m, "xesam:album", "Unknown"),
     album_artist |-> get(m, "xesam:albumArtist", <<"Unknown">>)[1],
     track_number |-> get(m, "xesam:trackNumber", 0),
     url |-> get(m, "xesam:url", ""),
     art_url |-> get(m, "mpris:artUrl", ""),
     length |-> get(m, "mpris:length", 0),
     track_id |-> get(m, "mpris:trackid", "")]

\* whether building the dict raises IndexError: [0] on an empty sequence
IndexErrorIn(m) ==
    \/ get(m, "xesam:artist", <<"Unknown">>) = <<>>
    \/ get(m, "xesam:albumArtist", <<"Unknown">>) = <<>>

get_metadata(p) ==
    IF p = None THEN Ok(PyNone, <<>>)
    ELSE LET g == Get(p, "Metadata")
         IN  IF g.exc # "none" THEN Raise(g.exc, g.calls)
             ELSE IF IndexErrorIn(g.v) THEN Raise("IndexError", g.calls)
             ELSE Ok(PyDict(normalize(g.v)), g.calls)

\* f"{minutes:02}:{seconds:02}" of a position in microseconds
mmss(position) ==
    fmt02(position \div 60000000) \o ":" \o fmt02((position % 60000000) \div 1000000)

get_position_str(p) ==
    LET md == get_metadata(p)
        pos == get_position(p)
    IN  IF md.exc # "none" THEN md
        ELSE IF md.v.tag = "None" THEN Ok(PyStr("00:00:00"), md.calls)
        ELSE IF pos.exc # "none" THEN Raise(pos.exc, md.calls \o pos.calls)
        ELSE Ok(PyStr(mmss(pos.v.v)), md.calls \o pos.calls)

get_position_and_length_str(p) ==
    LET md == get_metadata(p)
        pos == get_position(p)
    IN  IF md.exc # "none" THEN md
        ELSE IF md.v.tag = "None" THEN Ok(PyStr("00:00/00:00"), md.calls)
        ELSE IF pos.exc # "none" THEN Raise(pos.exc, md.calls \o pos.calls)
        ELSE Ok(PyStr(mmss(pos.v.v) \o "/" \o mmss(md.v.v.length)), md.calls \o pos.calls)

get_shuffle(p) ==
    IF p = None THEN Ok(PyBool(FALSE), <<>>)
    ELSE LET g == Get(p, "Shuffle")
         IN  IF g.exc # "none" THEN Raise(g.exc, g.calls)
             ELSE Ok(PyBool(g.v), g.calls)

get_loop(p) ==
    IF p = None THEN Ok(PyStr("None"), <<>>)
    ELSE LET g == Get(p, "LoopStatus")
         IN  IF g.exc # "none" THEN Raise(g.exc, g.calls)
             ELSE Ok(PyStr(g.v), g.calls)

\* get_title, get_artist, get_album, get_album_artist, get_art_url share one
\* shape: the field of get_metadata(), or a placeholder when it is None
projection(p, field, placeholder) ==
    LET md == get_metadata(p)
    IN  IF md.exc # "none" THEN md
        ELSE IF md.v.tag = "None" THEN Ok(PyStr(placeholder), md.calls)
        ELSE Ok(PyStr(md.v.v[field]), md.calls)

get_title(p) == projection(p, "title", "-")
get_artist(p) == projection(p, "artist", "-")
get_album(p) == projection(p, "album", "-")
get_album_artist(p) == projection(p, "album_artist", "-")
get_art_url(p) == projection(p, "art_url", "")

-----------------------------------------------------------------------------
(* The player's end of org.mpris.MediaPlayer2.Player *)

ValidObjectPath(t) == Len(t) >= 1 /\ SubSeq(t, 1, 1) = "/"

\* the player pl after it served method member(args)
PlayerMethod(pl, member, args) ==
    CASE member = "Play" -> [pl EXCEPT !.PlaybackStatus = "Playing"]
      [] member = "Pause" ->
            [pl EXCEPT !.PlaybackStatus = IF @ = "Playing" THEN "Paused" ELSE @]
      [] member = "PlayPause" ->
            [pl EXCEPT !.PlaybackStatus = IF @ = "Playing" THEN "Paused" ELSE "Playing"]
      [] member = "Stop" -> [pl EXCEPT !.PlaybackStatus = "Stopped", !.Position = 0]
      [] member \in {"Next", "Previous"} -> [pl EXCEPT !.Position = 0]
      [] member = "SetPosition" ->
            IF /\ get(pl.Metadata, "mpris:trackid", "") = args[1]
               /\ 0 <= args[2]
               /\ args[2] <= get(pl.Metadata, "mpris:length", 0)
            THEN [pl EXCEPT !.Position = args[2]]
            ELSE pl

\* self.interface.<member>(*args): the exception, the call, the players after
CallMethod(i, member, args) ==
    LET c == BusCall(i, member, args)
    IN  IF member = "SetPosition" /\ ~ValidObjectPath(args[1])
        THEN [exc |-> "ValueError", calls |-> <<>>, remote |-> remote]
        ELSE IF Reachable(i)
        THEN [exc |-> "none", calls |-> <<c>>,
              remote |-> [remote EXCEPT ![i.service] = PlayerMethod(@, member, args)]]
        ELSE [exc |-> "DBusException", calls |-> <<c>>, remote |-> remote]

\* self.properties.Set(INTERFACE, prop, value)
Set(p, prop, value) ==
    LET c == BusCall(p, "Set", <<INTERFACE, prop, value>>)
    IN  IF Reachable(p)
        THEN [exc |-> "none", calls |-> <<c>>,
              remote |-> [remote EXCEPT ![p.service][prop] = value]]
        ELSE [exc |-> "DBusException", calls |-> <<c>>, remote |-> remote]

NoOp == [exc |-> "none", calls |-> <<>>, remote |-> remote]

\* a command that starts with the calls cs of a getter that returned
After(cs, out) == [out EXCEPT !.calls = cs \o @]

\* a command that ends with the exception e of a getter, after calls cs
Fails(e, cs) == [exc |-> e, calls |-> cs, remote |-> remote]

-----------------------------------------------------------------------------
(* Playback controls and mode settings *)

\* as play would be without its test of self.interface
play_unguarded == CallMethod(interface, "Play", <<>>)

play == IF interface = None THEN NoOp ELSE CallMethod(interface, "Play", <<>>)
pause == IF interface = None THEN NoOp ELSE CallMethod(interface, "Pause", <<>>)
play_pause == IF interface = None THEN NoOp ELSE CallMethod(interface, "PlayPause", <<>>)
stop == IF interface = None THEN NoOp ELSE CallMethod(interface, "Stop", <<>>)
next_track == IF interface = None THEN NoOp ELSE CallMethod(interface, "Next", <<>>)
previous_track == IF interface = None THEN NoOp ELSE CallMethod(interface, "Previous", <<>>)

set_position(position) ==
    IF interface = None THEN NoOp
    ELSE LET md == get_metadata(properties)
         IN  IF md.exc # "none" THEN Fails(md.exc, md.calls)
             ELSE IF md.v.tag = "None" THEN After(md.calls, NoOp)
             ELSE After(md.calls,
                        CallMethod(interface, "SetPosition", <<md.v.v.track_id, position>>))

\* minutes, seconds = map(int, position_str.split(":")) raises ValueError unless
\* there are exactly two tokens and int() takes both
WellFormed(position_str) ==
    LET t == split(position_str, ":")
    IN  Len(t) = 2 /\ IsIntLiteral(t[1]) /\ IsIntLiteral(t[2])

Microseconds(position_str) ==
    LET t == split(position_str, ":")
    IN  (int(t[1]) * 60 + int(t[2])) * 1000000

set_position_str(position_str) ==
    IF ~WellFormed(position_str) THEN Fails("ValueError", <<>>)
    ELSE set_position(Microseconds(position_str))

set_shuffle(shuffle_status) ==
    IF properties = None THEN NoOp ELSE Set(properties, "Shuffle", shuffle_status)

set_loop(loop_status) ==
    IF properties = None THEN NoOp ELSE Set(properties, "LoopStatus", loop_status)

LOOP_STATES == <<"None", "Track", "Playlist">>

\* as cycle_loop would be if it stepped to the previous state
cycle_loop_backwards ==
    IF properties = None THEN NoOp
    ELSE LET loop == get_loop(properties)
         IN  IF loop.exc # "none" THEN Fails(loop.exc, loop.calls)
             ELSE IF \A k \in 1..Len(LOOP_STATES) : LOOP_STATES[k] # loop.v.v
             THEN Fails("ValueError", loop.calls)
             ELSE LET loop_index == (CHOOSE k \in 1..Len(LOOP_STATES) :
                                        LOOP_STATES[k] = loop.v.v) - 1
                      loop_status == LOOP_STATES[((loop_index + 2) % Len(LOOP_STATES)) + 1]
                  IN  After(loop.calls, Set(properties, "LoopStatus", loop_status))

cycle_loop ==
    IF properties = None THEN NoOp
    ELSE LET loop == get_loop(properties)
         IN  IF loop.exc # "none" THEN Fails(loop.exc, loop.calls)
             ELSE IF \A k \in 1..Len(LOOP_STATES) : LOOP_STATES[k] # loop.v.v
             THEN Fails("ValueError", loop.calls)
             ELSE LET loop_index == (CHOOSE k \in 1..Len(LOOP_STATES) :
                                        LOOP_STATES[k] = loop.v.v) - 1
                      loop_status == LOOP_STATES[((loop_index + 1) % Len(LOOP_STATES)) + 1]
                  IN  After(loop.calls, Set(properties, "LoopStatus", loop_status))

\* the "shuffle" command's callback:
\* self.controller.set_shuffle(self.controller.get_shuffle() is False)
toggle_shuffle ==
    LET g == get_shuffle(properties)
    IN  IF g.exc # "none" THEN Fails(g.exc, g.calls)
        ELSE After(g.calls, set_shuffle(g.v.v = FALSE))

-----------------------------------------------------------------------------
(* The plugin: src/__init__.py *)

md_name == "MPRIS Media Player"

\* str(b) for a bool b
str_bool(b) == IF b THEN "True" ELSE "False"

\* a StandardItem: its id and what its action, if any, is bound to (the texts
\* and icons it shows are left out)
Item(id, action, target) == [id |-> id, action |-> action, target |-> target]

create_player_not_running_item == Item(md_name, "", "")

create_command_item(cmd) == Item(md_name \o "_" \o cmd, "Execute", cmd)

create_app_item(player) == Item(md_name \o "_" \o player, "Switch", player)

\* the getters create_commands calls, in the order it calls them
\* the k-th getter create_commands calls, in the order of its f-strings
CommandGetter(k, p) ==
    CASE k = 1 -> get_playback_status(p)
      [] k = 2 -> get_title(p)
      [] k = 3 -> get_album_artist(p)
      [] k = 4 -> get_album(p)
      [] k = 5 -> get_art_url(p)
      [] k = 6 -> get_shuffle(p)
      [] k = 7 -> get_loop(p)
      [] k = 8 -> get_position_str(p)

\* the getters from the k-th on, after the calls cs: the first exception ends
\* the evaluation of the dict
RECURSIVE CommandGetters(_, _, _)
CommandGetters(p, k, cs) ==
    IF k > 8 THEN [exc |-> "none", calls |-> cs]
    ELSE The({IF o.exc # "none" THEN [exc |-> o.exc, calls |-> cs \o o.calls]
              ELSE CommandGetters(p, k + 1, cs \o o.calls) : o \in {CommandGetter(k, p)}})

\* create_commands with self.controller.properties = p: the exception that
\* leaves it, the calls made, and the keys of the command table
create_commands(p) ==
    The({[exc |-> g.exc, calls |-> g.calls, commands |->
             IF g.exc # "none" THEN <<>>
             ELSE <<"info", "play", "pause", "next", "prev", "shuffle", "loop", "goto",
                    "switch">>] : g \in {CommandGetters(p, 1, <<>>)}})

\* create_goto_item with self.controller.properties = p
create_goto_item(p, pos) ==
    LET curr_pos == get_position_str(p)
    IN  IF curr_pos.exc # "none" THEN curr_pos
        ELSE Ok(Item(md_name \o "_goto", "GoTo", pos), curr_pos.calls)

CommandItems(commands) ==
    [k \in 1..Len(commands) |-> create_command_item(commands[k])]

\* handleTriggerQuery(query), query.string already lower-case and stripped:
\* the handles it leaves, the exception that leaves it, the calls it made on the
\* player, and the items it adds to the query
handleTriggerQuery(query) ==
    LET active == is_current_bus_app_active
        available == is_current_bus_app_available
        connected == IF active THEN Handles
                     ELSE IF available THEN activate_current_bus_app(Handles)
                     ELSE deactivate_bus_app
        first == IF ~active /\ ~available THEN <<create_player_not_running_item>> ELSE <<>>
        IsSwitch(c) == c = "switch"
        args == split(query, " ")
        command == args[1]
        Wanted(app) == Len(args) = 1 \/ startswith(app, args[2])
        apps == SelectSeq(get_available_bus_apps, Wanted)
        Matches(c) == startswith(c, command)
        Items(h, cc) ==
            LET commands == IF ~active /\ ~available THEN SelectSeq(cc.commands, IsSwitch)
                            ELSE cc.commands
                goto == create_goto_item(h.properties,
                                         IF Len(args) > 1 THEN args[2] ELSE "00:00")
            IN  IF cc.exc # "none"
                THEN [handles |-> h, exc |-> cc.exc, calls |-> cc.calls, items |-> <<>>]
                ELSE IF command = ""
                THEN [handles |-> h, exc |-> "none", calls |-> cc.calls,
                      items |-> first \o CommandItems(commands)]
                ELSE IF command = "switch"
                THEN [handles |-> h, exc |-> "none", calls |-> cc.calls,
                      items |-> first \o [k \in 1..Len(apps) |-> create_app_item(apps[k])]]
                ELSE IF command = "goto"
                THEN IF goto.exc # "none"
                     THEN [handles |-> h, exc |-> goto.exc,
                           calls |-> cc.calls \o goto.calls, items |-> <<>>]
                     ELSE [handles |-> h, exc |-> "none",
                           calls |-> cc.calls \o goto.calls, items |-> first \o <<goto.v>>]
                ELSE [handles |-> h, exc |-> "none", calls |-> cc.calls,
                      items |-> first \o CommandItems(SelectSeq(commands, Matches))]
    IN  The({The({Items(h, cc) : cc \in {create_commands(h.properties)}}) :
                h \in {connected}})

-----------------------------------------------------------------------------
(* Bus events: players come and go, the bus fails and recovers, a player's    *)
(* properties change under its own user interface                             *)

BusEvent ==
    /\ op' = "bus" /\ arg' = "" /\ ret' = PyNone /\ exc' = "none" /\ calls' = <<>>
    /\ before' = Snapshot
    /\ UNCHANGED <<bus_app, handleVars>>

\* The bus never reuses a unique connection name.  The new owner of n is named
\* by the least number no handle of the controller bound to n still carries.
FreshOwner(n) ==
    LET held == {h.owner : h \in {x \in {proxy, interface, properties} : x.service = n}}
    IN  CHOOSE k \in 1..4 : k \notin held /\ \A j \in 1..(k - 1) : j \in held

NameAcquired(n, pl) ==
    /\ ~Registered(n)
    /\ names' = Append(names, n)
    /\ owner' = [owner EXCEPT ![n] = FreshOwner(n)]
    /\ remote' = IF n \in PlayerNames THEN [remote EXCEPT ![n] = pl] ELSE remote
    /\ UNCHANGED bus_ok
    /\ BusEvent

NameLost(n) ==
    /\ Registered(n)
    /\ names' = LET Other(x) == x # n IN SelectSeq(names, Other)
    /\ owner' = [owner EXCEPT ![n] = 0]
    /\ remote' = IF n \in PlayerNames THEN [remote EXCEPT ![n] = InitialPlayer] ELSE remote
    /\ UNCHANGED bus_ok
    /\ BusEvent

BusFails ==
    /\ bus_ok
    /\ bus_ok' = FALSE
    /\ UNCHANGED <<names, owner, remote>>
    /\ BusEvent

BusRecovers ==
    /\ ~bus_ok
    /\ bus_ok' = TRUE
    /\ UNCHANGED <<names, owner, remote>>
    /\ BusEvent

\* property prop of the player at n changes to value
PropertyChanged(n, prop, value) ==
    /\ Registered(n)
    /\ n \in PlayerNames
    /\ remote[n][prop] # value
    /\ remote' = [remote EXCEPT ![n][prop] = value]
    /\ UNCHANGED busVars
    /\ BusEvent

\* the player at n presents or withdraws metadata key k
MetadataChanged(n, k) ==
    /\ Registered(n)
    /\ n \in PlayerNames
    /\ remote' = [remote EXCEPT ![n].Metadata =
                    IF k \in DOMAIN @ THEN [j \in (DOMAIN @) \ {k} |-> @[j]]
                    ELSE [j \in (DOMAIN @) \cup {k} |->
                            IF j = k THEN FullMetadata[k] ELSE @[j]]]
    /\ UNCHANGED busVars
    /\ BusEvent

\* the player at n presents key k (xesam:artist or xesam:albumArtist) with no
\* element
ArtistsEmptied(n, k) ==
    /\ Registered(n)
    /\ n \in PlayerNames
    /\ k \in DOMAIN remote[n].Metadata
    /\ remote[n].Metadata[k] # <<>>
    /\ remote' = [remote EXCEPT ![n].Metadata[k] = <<>>]
    /\ UNCHANGED busVars
    /\ BusEvent

-----------------------------------------------------------------------------
(* Operations of the controller and of the plugin, one action each.  The    *)
(* outcome of an operation is computed once, as the only element of a set.  *)

\* a getter returned out.v or raised out.exc
Returns(name, a, out) ==
    \E o \in {out} :
        /\ op' = name /\ arg' = a /\ ret' = o.v /\ exc' = o.exc /\ calls' = o.calls
        /\ before' = Snapshot
        /\ UNCHANGED <<busVars, remote, bus_app, handleVars>>

\* a command acted on the player or raised out.exc
Does(name, a, out) ==
    \E o \in {out} :
        /\ op' = name /\ arg' = a /\ ret' = PyNone /\ exc' = o.exc /\ calls' = o.calls
        /\ before' = Snapshot
        /\ remote' = o.remote
        /\ UNCHANGED <<busVars, bus_app, handleVars>>

\* a lifecycle operation left the handles h
Binds(name, a, h) ==
    \E o \in {h} :
        /\ op' = name /\ arg' = a /\ ret' = PyNone /\ exc' = "none" /\ calls' = <<>>
        /\ before' = Snapshot
        /\ proxy' = o.proxy /\ interface' = o.interface /\ properties' = o.properties
        /\ UNCHANGED <<busVars, remote, bus_app>>

GetAvailableBusApps == Returns("get_available_bus_apps", "", Ok(PyList(get_available_bus_apps), <<>>))
GetCurrentBusApp == Returns("get_current_bus_app", "", Ok(PyStr(get_current_bus_app), <<>>))
IsBusAppAvailable(app) == Returns("is_bus_app_available", app, Ok(PyBool(is_bus_app_available(app)), <<>>))
IsCurrentBusAppAvailable == Returns("is_current_bus_app_available", "", Ok(PyBool(is_current_bus_app_available), <<>>))
IsCurrentBusAppActive == Returns("is_current_bus_app_active", "", Ok(PyBool(is_current_bus_app_active), <<>>))

\* the "Switch" action of an app item: self.controller.activate_bus_app(p)
ActivateBusApp(app) == Binds("activate_bus_app", app, activate_bus_app(Handles, app))
ActivateCurrentBusApp == Binds("activate_current_bus_app", "", activate_current_bus_app(Handles))
DeactivateBusApp == Binds("deactivate_bus_app", "", deactivate_bus_app)

Play == Does("play", "", play)
Pause == Does("pause", "", pause)
PlayPause == Does("play_pause", "", play_pause)
Stop == Does("stop", "", stop)
NextTrack == Does("next_track", "", next_track)
PreviousTrack == Does("previous_track", "", previous_track)

GetPlaybackStatus == Returns("get_playback_status", "", get_playback_status(properties))
GetPosition == Returns("get_position", "", get_position(properties))
GetPositionStr == Returns("get_position_str", "", get_position_str(properties))
GetPositionAndLengthStr == Returns("get_position_and_length_str", "", get_position_and_length_str(properties))
GetShuffle == Returns("get_shuffle", "", get_shuffle(properties))
GetLoop == Returns("get_loop", "", get_loop(properties))
GetMetadata == Returns("get_metadata", "", get_metadata(properties))
GetTitle == Returns("get_title", "", get_title(properties))
GetArtist == Returns("get_artist", "", get_artist(properties))
GetAlbum == Returns("get_album", "", get_album(properties))
GetAlbumArtist == Returns("get_album_artist", "", get_album_artist(properties))
GetArtUrl == Returns("get_art_url", "", get_art_url(properties))

SetPosition(position) == Does("set_position", str_int(position), set_position(position))
SetPositionStr(position_str) == Does("set_position_str", position_str, set_position_str(position_str))
SetShuffle(shuffle_status) == Does("set_shuffle", str_bool(shuffle_status), set_shuffle(shuffle_status))
SetLoop(loop_status) == Does("set_loop", loop_status, set_loop(loop_status))
CycleLoop == Does("cycle_loop", "", cycle_loop)
ToggleShuffle == Does("toggle_shuffle", "", toggle_shuffle)

HandleTriggerQuery(query) ==
    \E out \in {handleTriggerQuery(query)} :
        /\ op' = "handleTriggerQuery" /\ arg' = query
        /\ ret' = IF out.exc = "none" THEN PyList(out.items) ELSE PyNone
        /\ exc' = out.exc /\ calls' = out.calls
        /\ before' = Snapshot
        /\ proxy' = out.handles.proxy
        /\ interface' = out.handles.interface
        /\ properties' = out.handles.properties
        /\ UNCHANGED <<busVars, remote, bus_app>>

-----------------------------------------------------------------------------
(* Specifications *)

\* the sequences without repetition of at most n elements of S
RECURSIVE Arrangements(_, _)
Arrangements(S, n) ==
    IF n = 0 THEN {<<>>}
    ELSE LET shorter == Arrangements(S, n - 1)
         IN  shorter \cup
             {Append(s, x) : <<s, x>> \in
                {y \in shorter \X S : \A i \in 1..Len(y[1]) : y[1][i] # y[2]}}

\* Plugin.__init__ builds the controller for DEFAULT_BUS_NAME on a bus where
\* the names ns are registered and the player behind name at is pl
Construct(ns, ok, at, pl) ==
    /\ names = ns
    /\ owner = [n \in BusNames |-> IF \E i \in 1..Len(ns) : ns[i] = n THEN 1 ELSE 0]
    /\ bus_ok = ok
    /\ remote = [n \in PlayerNames |->
                    IF n = at /\ (\E i \in 1..Len(ns) : ns[i] = n) THEN pl ELSE InitialPlayer]
    /\ bus_app = DEFAULT_BUS_NAME
    /\ proxy = init_handles.proxy
    /\ interface = init_handles.interface
    /\ properties = init_handles.properties
    /\ op = "__init__" /\ arg = DEFAULT_BUS_NAME /\ ret = PyNone /\ exc = "none"
    /\ calls = <<>>
    /\ before = [bus_app |-> DEFAULT_BUS_NAME, handles |-> NoHandles]

Statuses == {"Playing", "Paused", "Stopped"}
Queries == {"", "switch", "switch v", "goto 01:05", "p"}
PositionStrings == {"01:05", "12:34", "1:5", "abc", "12", "1:2:3", "1:"}

\* the operations every specification offers
Lifecycle ==
    \/ \E q \in Queries : HandleTriggerQuery(q)
    \/ \E app \in {"spotify", "vlc"} : ActivateBusApp(app)
    \/ ActivateCurrentBusApp
    \/ DeactivateBusApp
    \/ GetCurrentBusApp
    \/ GetAvailableBusApps
    \/ \E app \in {"spotify", "vlc"} : IsBusAppAvailable(app)
    \/ IsCurrentBusAppAvailable
    \/ IsCurrentBusAppActive

Getters ==
    \/ GetPlaybackStatus
    \/ GetPosition
    \/ GetPositionStr
    \/ GetPositionAndLengthStr
    \/ GetShuffle
    \/ GetLoop
    \/ GetMetadata
    \/ GetTitle
    \/ GetArtist
    \/ GetAlbum
    \/ GetAlbumArtist
    \/ GetArtUrl

Transport ==
    \/ Play
    \/ Pause
    \/ PlayPause
    \/ Stop
    \/ NextTrack
    \/ PreviousTrack

Modes ==
    \/ \E b \in BOOLEAN : SetShuffle(b)
    \/ \E l \in {"None", "Track", "Playlist"} : SetLoop(l)
    \/ CycleLoop
    \/ ToggleShuffle

Seeks ==
    \/ \E position \in {65000000} : SetPosition(position)
    \/ \E s \in PositionStrings : SetPositionStr(s)

\* Spec: the connection lifecycle, with two players coming and going
Init ==
    \E ns \in Arrangements({SpotifyName, VlcName}, 2), ok \in BOOLEAN :
        Construct(ns, ok, SpotifyName, InitialPlayer)

Next ==
    \/ \E n \in {SpotifyName, VlcName} : NameAcquired(n, InitialPlayer)
    \/ \E n \in {SpotifyName, VlcName} : NameLost(n)
    \/ BusFails
    \/ BusRecovers
    \/ \E n \in {SpotifyName, VlcName}, s \in Statuses : PropertyChanged(n, "PlaybackStatus", s)
    \/ Lifecycle
    \/ Getters
    \/ Transport
    \/ \E b \in BOOLEAN : SetShuffle(b)

Spec == Init /\ [][Next]_vars

\* SpecDiscovery: any names on the bus, in any order, at most MaxNames at once
MaxNames == 3

Identities == {"spotify", "vlc", "kdeconnect.mpris_1", "mpris_1", "instance1234"}

InitDiscovery ==
    \E ns \in Arrangements(BusNames, MaxNames) :
        Construct(ns, TRUE, SpotifyName, InitialPlayer)

NextDiscovery ==
    \/ \E n \in BusNames : Len(names) < MaxNames /\ NameAcquired(n, InitialPlayer)
    \/ \E n \in BusNames : NameLost(n)
    \/ GetAvailableBusApps
    \/ \E app \in Identities : IsBusAppAvailable(app)

SpecDiscovery == InitDiscovery /\ [][NextDiscovery]_vars

\* SpecMetadata: one player, whose track carries any subset of the keys
InitMetadata ==
    \E ns \in {<<>>, <<SpotifyName>>}, present \in SUBSET MetadataKeys :
        Construct(ns, TRUE, SpotifyName,
                  [InitialPlayer EXCEPT !.Metadata = [k \in present |-> FullMetadata[k]]])

NextMetadata ==
    \/ \E k \in MetadataKeys : MetadataChanged(SpotifyName, k)
    \/ \E k \in {"xesam:artist", "xesam:albumArtist"} : ArtistsEmptied(SpotifyName, k)
    \/ ActivateCurrentBusApp
    \/ DeactivateBusApp
    \/ GetMetadata
    \/ GetTitle
    \/ GetArtist
    \/ GetAlbum
    \/ GetAlbumArtist
    \/ GetArtUrl

SpecMetadata == InitMetadata /\ [][NextMetadata]_vars

\* SpecCommands: one player and every command, the controller bound or not
Tracks == {NoMetadata, FullMetadata, [FullMetadata EXCEPT !["xesam:artist"] = <<>>]}

Playing(track) == [InitialPlayer EXCEPT !.Metadata = track]

InitCommands ==
    \E ns \in {<<>>, <<SpotifyName>>}, track \in Tracks :
        Construct(ns, TRUE, SpotifyName, Playing(track))

NextCommands ==
    \/ \E track \in Tracks : NameAcquired(SpotifyName, Playing(track))
    \/ NameLost(SpotifyName)
    \/ ActivateCurrentBusApp
    \/ DeactivateBusApp
    \/ Transport
    \/ Modes
    \/ Seeks

SpecCommands == InitCommands /\ [][NextCommands]_vars

\* SpecPosition: one player whose position moves, read and set as MM:SS
Positions == {0, 59000000, 59999999, 65000000, 65999999, 754000000, 2100000000}
ClockStrings == {"00:00", "00:59", "01:05", "12:34", "35:00"}

InitPosition ==
    \E ns \in {<<>>, <<SpotifyName>>}, track \in Tracks, p \in Positions :
        Construct(ns, TRUE, SpotifyName, [Playing(track) EXCEPT !.Position = p])

NextPosition ==
    \/ \E p \in Positions : PropertyChanged(SpotifyName, "Position", p)
    \/ \E track \in Tracks : NameAcquired(SpotifyName, Playing(track))
    \/ NameLost(SpotifyName)
    \/ ActivateCurrentBusApp
    \/ DeactivateBusApp
    \/ GetPosition
    \/ GetPositionStr
    \/ GetPositionAndLengthStr
    \/ \E s \in ClockStrings : SetPositionStr(s)

SpecPosition == InitPosition /\ [][NextPosition]_vars

-----------------------------------------------------------------------------
(* Vocabulary of the properties *)

GetterOps ==
    {"get_playback_status", "get_position", "get_position_str",
     "get_position_and_length_str", "get_shuffle", "get_loop", "get_metadata",
     "get_title", "get_artist", "get_album", "get_album_artist", "get_art_url"}

MutatorOps ==
    {"play", "pause", "play_pause", "stop", "next_track", "previous_track",
     "set_position", "set_position_str", "set_shuffle", "set_loop", "cycle_loop"}

\* what each getter is documented to return when there is no connection
DocumentedDefault(getter) ==
    CASE getter = "get_playback_status" -> PyStr("Stopped")
      [] getter = "get_position" -> PyInt(0)
      [] getter = "get_position_str" -> PyStr("00:00")
      [] getter = "get_position_and_length_str" -> PyStr("00:00/00:00")
      [] getter = "get_shuffle" -> PyBool(FALSE)
      [] getter = "get_loop" -> PyStr("None")
      [] getter = "get_metadata" -> PyNone
      [] getter \in {"get_title", "get_artist", "get_album", "get_album_artist"} -> PyStr("-")
      [] getter = "get_art_url" -> PyStr("")

\* the values a and b are the same Python value
Same(a, b) == a.tag = b.tag /\ a.v = b.v

\* the operation began with no handle, resp. with all three
BeganUnbound == before.handles = NoHandles
Unbound == Handles = NoHandles
Active == proxy # None /\ interface # None /\ properties # None

\* the service name of the current identity
CurrentService == "org.mpris.MediaPlayer2." \o bus_app

\* the connection handle h is bound to still owns its name, and the bus answers
Answers(h) ==
    /\ bus_ok
    /\ \E i \in 1..Len(names) : names[i] = h.service
    /\ owner[h.service] = h.owner

-----------------------------------------------------------------------------
(* C1 *)

\* C1: whenever a getter is called with no connection (handles None), it raises
\* nothing and returns its documented default: "Stopped", 0, "00:00",
\* "00:00/00:00", False, "None", None for the metadata, "-" for the text
\* fields, "" for the art URL.
C1_UnboundGettersReturnDefaults ==
    (op \in GetterOps /\ interface = None /\ properties = None) =>
        (exc = "none" /\ Same(ret, DocumentedDefault(op)))

\* every default but that of get_position_str is the documented one
C1_DefaultsButPositionStr ==
    (op \in GetterOps \ {"get_position_str"} /\ interface = None /\ properties = None) =>
        (exc = "none" /\ calls = <<>> /\ Same(ret, DocumentedDefault(op)))

-----------------------------------------------------------------------------
(* C2 *)

\* C2: when the controller is Unbound with identity "spotify" not registered
\* and "vlc" registered, the Switch action for "vlc" makes "vlc" the current
\* identity and leaves the controller Active on org.mpris.MediaPlayer2.vlc, so
\* that get_playback_status() is vlc's PlaybackStatus.
C2_SwitchMakesCurrent ==
    (/\ op = "activate_bus_app" /\ arg = "vlc"
     /\ BeganUnbound /\ before.bus_app = "spotify"
     /\ bus_ok /\ ~Registered(SpotifyName) /\ Registered(VlcName)) =>
        (/\ get_current_bus_app = "vlc"
         /\ Active
         /\ proxy.service = VlcName /\ interface.service = VlcName
         /\ properties.service = VlcName
         /\ get_playback_status(properties).exc = "none"
         /\ get_playback_status(properties).v = PyStr(remote[VlcName].PlaybackStatus))
-----------------------------------------------------------------------------
(* C3 *)

\* C3 as stated: whenever a query or command of the controller is issued
\* while the controller is Unbound and the current identity is registered,
\* that call leaves the controller Active and is served by the player (it
\* makes a bus call).
C3_QueriesReconnect ==
    (op \in GetterOps \cup MutatorOps /\ BeganUnbound /\ is_current_bus_app_available) =>
        (Active /\ calls # <<>>)

\* C3 amended: a query or command of the controller issued while Unbound
\* leaves it Unbound and makes no bus call, also when the current identity is
\* registered; the controller leaves Unbound only in construction, in
\* activate_bus_app / activate_current_bus_app and in handleTriggerQuery, then
\* bound to the service of the current identity; and handleTriggerQuery begun
\* Unbound with the current identity available ends Active.
C3_OnlyActivationBinds ==
    /\ (op \in GetterOps \cup MutatorOps /\ BeganUnbound) => (Unbound /\ calls = <<>>)
    /\ (BeganUnbound /\ ~Unbound) =>
           (/\ op \in {"__init__", "activate_bus_app", "activate_current_bus_app",
                        "handleTriggerQuery"}
            /\ Active
            /\ proxy.service = CurrentService
            /\ interface = proxy /\ properties = proxy)
    /\ (op = "handleTriggerQuery" /\ BeganUnbound /\ is_current_bus_app_available) =>
           (Active /\ proxy.service = CurrentService)

\* a trigger query found the controller Unbound and the player registered,
\* and bound it
C3_QueryReconnected ==
    /\ op = "handleTriggerQuery" /\ BeganUnbound /\ Active
    /\ calls # <<>> /\ exc = "none"

-----------------------------------------------------------------------------
(* C4 *)

\* C4 as stated: in every reachable state the handles are non-null only if
\* the current identity is registered on the bus.
C4_HandlesOnlyWhileRegistered ==
    (proxy # None \/ interface # None \/ properties # None) => Registered(CurrentService)

\* C4 amended: the handles become or change to non-null only in an operation
\* that finds the current identity registered, and handleTriggerQuery (the
\* availability check of the plugin) leaves them null when the current
\* identity is not available; between two such checks they outlive the player.
C4_HandlesFollowLastCheck ==
    /\ (Handles # before.handles /\ ~Unbound) => (bus_ok /\ Registered(CurrentService))
    /\ (op = "handleTriggerQuery" /\ ~(bus_ok /\ Registered(CurrentService))) => Unbound
    /\ (op = "__init__" /\ ~(bus_ok /\ Registered(CurrentService))) => Unbound

\* a trigger query found handles whose player had left the bus, and dropped them
C4_QueryDroppedHandles ==
    /\ op = "handleTriggerQuery" /\ ~BeganUnbound /\ Unbound
    /\ ~Registered(CurrentService)

-----------------------------------------------------------------------------
(* C5 *)

\* C5 as stated: no getter, and no handleTriggerQuery, ever ends with an
\* exception.
C5_GettersNeverRaise ==
    (op \in GetterOps \cup {"handleTriggerQuery"}) => exc = "none"

\* C5 amended: a getter called with properties None makes no bus call and
\* raises nothing; a getter called with properties bound raises the bus
\* error (DBusException) exactly when the connection its handle was bound to
\* no longer answers (the bus fails, or the name was released or has a new
\* owner), and the error reaches the caller of handleTriggerQuery too.
C5_BusErrorsPropagate ==
    (op \in GetterOps \cup {"handleTriggerQuery"}) =>
        /\ (properties = None) => (exc = "none" /\ calls = <<>>)
        /\ (exc = "DBusException") <=> (properties # None /\ ~Answers(properties))

\* a trigger query on a player that was restarted since the handles were bound
C5_QueryOnRestartedPlayer ==
    /\ op = "handleTriggerQuery" /\ exc = "DBusException"
    /\ Registered(CurrentService) /\ bus_ok /\ Active

-----------------------------------------------------------------------------
(* C9 *)

\* C9: while the registry query of the bus fails, get_available_bus_apps
\* returns the empty list, is_bus_app_available, is_current_bus_app_available
\* and is_current_bus_app_active return False, none raising; construction and
\* handleTriggerQuery end without exception as with no player: handles None,
\* and the query's first item is "player not running".
C9_RegistryFailureMeansNoPlayers ==
    ~bus_ok =>
        /\ (op = "get_available_bus_apps") =>
               (exc = "none" /\ ret.tag = "list" /\ ret.v = <<>>)
        /\ (op \in {"is_bus_app_available", "is_current_bus_app_available",
                     "is_current_bus_app_active"}) =>
               (exc = "none" /\ ret.tag = "bool" /\ ret.v = FALSE)
        /\ (op \in {"__init__", "handleTriggerQuery"}) => (exc = "none" /\ Unbound)
        /\ (op = "handleTriggerQuery") =>
               (/\ ret.tag = "list" /\ Len(ret.v) >= 1
                /\ ret.v[1] = create_player_not_running_item
                /\ calls = <<>>)

\* a trigger query during a registry failure, the player registered and the
\* controller bound to it before
C9_QueryDuringFailure ==
    /\ ~bus_ok /\ op = "handleTriggerQuery" /\ ~BeganUnbound
    /\ Registered(CurrentService)
-----------------------------------------------------------------------------
(* C8 *)

\* the registered names that are player services and carry no instance
\* qualifier, in registry order, and what follows the prefix in such a name
PlayerServices ==
    LET Listed(n) == /\ startswith(n, "org.mpris.MediaPlayer2.")
                     /\ ~contains(n, "instance")
                     /\ ~startswith(n, ":")
    IN  SelectSeq(names, Listed)

Remainder(n) == SubSeq(n, Len("org.mpris.MediaPlayer2.") + 1, Len(n))

\* C8: get_available_bus_apps returns, in registry order, one identity per
\* registered name that starts with "org.mpris.MediaPlayer2." and has no
\* "instance" in it, the identity being all that follows the prefix;
\* is_bus_app_available(x) is true iff x is one of them; and every listed
\* identity x has org.mpris.MediaPlayer2.x registered.
C8_IdentitiesArePrefixStripped ==
    bus_ok =>
        /\ (op = "get_available_bus_apps") =>
               /\ exc = "none" /\ ret.tag = "list"
               /\ ret.v = [i \in 1..Len(PlayerServices) |-> Remainder(PlayerServices[i])]
               /\ \A i \in 1..Len(ret.v) : Registered("org.mpris.MediaPlayer2." \o ret.v[i])
        /\ (op = "is_bus_app_available") =>
               /\ exc = "none" /\ ret.tag = "bool"
               /\ ret.v = (\E i \in 1..Len(PlayerServices) : Remainder(PlayerServices[i]) = arg)
-----------------------------------------------------------------------------
(* C10 *)

\* the nine fields the claim gives for the remote mapping m
DocumentedFields(m) ==
    [title |-> IF "xesam:title" \in DOMAIN m THEN m["xesam:title"] ELSE "Unknown",
     artist |-> IF "xesam:artist" \in DOMAIN m THEN m["xesam:artist"][1] ELSE "Unknown",
     album |-> IF "xesam:album" \in DOMAIN m THEN m["xesam:album"] ELSE "Unknown",
     album_artist |->
        IF "xesam:albumArtist" \in DOMAIN m THEN m["xesam:albumArtist"][1] ELSE "Unknown",
     track_number |-> IF "xesam:trackNumber" \in DOMAIN m THEN m["xesam:trackNumber"] ELSE 0,
     url |-> IF "xesam:url" \in DOMAIN m THEN m["xesam:url"] ELSE "",
     art_url |-> IF "mpris:artUrl" \in DOMAIN m THEN m["mpris:artUrl"] ELSE "",
     length |-> IF "mpris:length" \in DOMAIN m THEN m["mpris:length"] ELSE 0,
     track_id |-> IF "mpris:trackid" \in DOMAIN m THEN m["mpris:trackid"] ELSE ""]

\* the artist lists the mapping m carries have a first element
HasFirstArtists(m) ==
    \A k \in {"xesam:artist", "xesam:albumArtist"} \cap DOMAIN m : m[k] # <<>>

\* C10: get_metadata returns None exactly when the controller is Unbound;
\* when Active on a player whose Metadata misses any subset of the nine keys
\* (its artist lists, where present, having a first element) it raises nothing
\* and returns all nine fields, a missing one with its default ("Unknown" for
\* title, artist, album, album_artist; 0 for track_number and length; "" for
\* url, art_url, track_id), a present one with the remote value (the first
\* element for artist and album_artist).
C10_MetadataDefaults ==
    (op = "get_metadata") =>
        /\ (properties = None) => (exc = "none" /\ ret.tag = "None")
        /\ (exc = "none" /\ ret.tag = "None") => properties = None
        /\ (/\ properties # None /\ Answers(properties)
            /\ HasFirstArtists(remote[properties.service].Metadata)) =>
               /\ exc = "none" /\ ret.tag = "dict"
               /\ ret.v = DocumentedFields(remote[properties.service].Metadata)

\* get_metadata on a track that has a title and an artist but no url, no
\* length and no track id
C10_PartialMetadata ==
    /\ op = "get_metadata" /\ Active /\ exc = "none" /\ ret.tag = "dict"
    /\ {"xesam:title", "xesam:artist"} \subseteq DOMAIN remote[properties.service].Metadata
    /\ DOMAIN remote[properties.service].Metadata \cap
           {"xesam:url", "mpris:length", "mpris:trackid"} = {}
-----------------------------------------------------------------------------
(* C6 *)

\* the position strings of two integer tokens, with the microseconds the
\* claims give for them: (minutes * 60 + seconds) * 1_000_000
DocumentedMicroseconds ==
    [s \in {"01:05", "12:34", "1:5"} |->
        CASE s = "01:05" -> 65000000
          [] s = "12:34" -> 754000000
          [] s = "1:5" -> 65000000]

\* C6: every mutating operation (play, pause, play_pause, stop, next_track,
\* previous_track, set_position, set_position_str with a well-formed string,
\* set_shuffle, set_loop, cycle_loop) called while Unbound makes no bus call,
\* raises nothing and leaves the identity and the three handles as they were.
C6_UnboundMutatorsDoNothing ==
    (/\ op \in MutatorOps /\ BeganUnbound
     /\ (op = "set_position_str" => arg \in DOMAIN DocumentedMicroseconds)) =>
        (exc = "none" /\ calls = <<>> /\ Unbound /\ bus_app = before.bus_app)

\* a seek by string while Unbound although the player is on the bus
C6_UnboundSeek ==
    /\ op = "set_position_str" /\ arg = "01:05" /\ BeganUnbound
    /\ bus_ok /\ Registered(CurrentService) /\ exc = "none"

-----------------------------------------------------------------------------
(* C7 *)

\* the SetPosition calls among the bus calls of the last operation
SetPositionCalls == {i \in 1..Len(calls) : calls[i].member = "SetPosition"}

\* C7: set_position_str raises an error for every string that is not two
\* colon-separated integer tokens, Active or Unbound, then making no
\* SetPosition call and changing no controller state; for a well-formed
\* string while Active (the connection alive, the track carrying an id) it
\* makes exactly one SetPosition call, with (minutes * 60 + seconds) *
\* 1_000_000 as its position.
C7_PositionStrings ==
    (op = "set_position_str") =>
        /\ (arg \notin DOMAIN DocumentedMicroseconds) =>
               /\ exc # "none" /\ SetPositionCalls = {}
               /\ Handles = before.handles /\ bus_app = before.bus_app
        /\ (/\ arg \in DOMAIN DocumentedMicroseconds
            /\ Active /\ Answers(interface)
            /\ "mpris:trackid" \in DOMAIN remote[interface.service].Metadata) =>
               /\ Cardinality(SetPositionCalls) = 1
               /\ \A i \in SetPositionCalls : calls[i].args[2] = DocumentedMicroseconds[arg]

\* the part of C7 about malformed strings
C7_MalformedRaises ==
    (op = "set_position_str" /\ arg \notin DOMAIN DocumentedMicroseconds) =>
        /\ exc = "ValueError" /\ calls = <<>>
        /\ Handles = before.handles /\ bus_app = before.bus_app
-----------------------------------------------------------------------------
(* C11 *)

\* the remote mapping m carries key k as a sequence with no element
PresentButEmpty(m, k) == k \in DOMAIN m /\ m[k] = <<>>

\* C11: when the remote Metadata carries xesam:artist or xesam:albumArtist as
\* a present but empty sequence, get_metadata on a live connection raises
\* nothing and returns a dict with "Unknown" for that field, and get_artist /
\* get_album_artist return "Unknown".
C11_EmptyArtistsAreUnknown ==
    (/\ op \in {"get_metadata", "get_artist", "get_album_artist"}
     /\ properties # None /\ Answers(properties)) =>
        LET m == remote[properties.service].Metadata
        IN  /\ (PresentButEmpty(m, "xesam:artist") \/ PresentButEmpty(m, "xesam:albumArtist")) =>
                   exc = "none"
            /\ (op = "get_metadata" /\ PresentButEmpty(m, "xesam:artist")) =>
                   (ret.tag = "dict" /\ ret.v.artist = "Unknown")
            /\ (op = "get_metadata" /\ PresentButEmpty(m, "xesam:albumArtist")) =>
                   (ret.tag = "dict" /\ ret.v.album_artist = "Unknown")
            /\ (op = "get_artist" /\ PresentButEmpty(m, "xesam:artist")) =>
                   Same(ret, PyStr("Unknown"))
            /\ (op = "get_album_artist" /\ PresentButEmpty(m, "xesam:albumArtist")) =>
                   Same(ret, PyStr("Unknown"))
-----------------------------------------------------------------------------
(* C12 *)

\* "MM:SS" for the positions of the model, as the claim gives it: minutes and
\* seconds of the position truncated to the second, two digits each
DocumentedClock ==
    [p \in {0, 59000000, 59999999, 65000000, 65999999, 754000000, 2100000000} |->
        CASE p = 0 -> "00:00"
          [] p = 59000000 -> "00:59"
          [] p = 59999999 -> "00:59"
          [] p = 65000000 -> "01:05"
          [] p = 65999999 -> "01:05"
          [] p = 754000000 -> "12:34"
          [] p = 2100000000 -> "35:00"]

\* the positions that are a whole number of seconds
WholeSeconds == {0, 59000000, 65000000, 754000000, 2100000000}

\* C12: while Active (the connection alive), get_position_str returns "MM:SS"
\* of the remote position truncated to the second, and set_position_str of
\* the string of a whole-second position p (the track carrying an id) makes a
\* SetPosition call with exactly p.
C12_PositionRoundTrip ==
    (Active /\ Answers(properties)) =>
        /\ (op = "get_position_str") =>
               /\ exc = "none"
               /\ Same(ret, PyStr(DocumentedClock[remote[properties.service].Position]))
        /\ (/\ op = "set_position_str"
            /\ "mpris:trackid" \in DOMAIN remote[properties.service].Metadata) =>
               \A p \in WholeSeconds :
                   (arg = DocumentedClock[p]) =>
                       /\ Cardinality(SetPositionCalls) = 1
                       /\ \A i \in SetPositionCalls : calls[i].args[2] = p

\* the round trip of C12 on the tracks whose artist lists have a first element
C12_RoundTripWithArtists ==
    (Active /\ Answers(properties)
        /\ HasFirstArtists(remote[properties.service].Metadata)) =>
        /\ (op = "get_position_str") =>
               /\ exc = "none"
               /\ Same(ret, PyStr(DocumentedClock[remote[properties.service].Position]))
        /\ (/\ op = "set_position_str"
            /\ "mpris:trackid" \in DOMAIN remote[properties.service].Metadata) =>
               \A p \in WholeSeconds :
                   (arg = DocumentedClock[p]) =>
                       /\ exc = "none"
                       /\ Cardinality(SetPositionCalls) = 1
                       /\ \A i \in SetPositionCalls : calls[i].args[2] = p
-----------------------------------------------------------------------------
(* C13 *)

\* the fixed order None -> Track -> Playlist -> None
NextLoop(l) ==
    CASE l = "None" -> "Track"
      [] l = "Track" -> "Playlist"
      [] l = "Playlist" -> "None"

\* C13: a cycle_loop step taken while Active (the connection alive) raises
\* nothing, reads LoopStatus and makes exactly one Set of LoopStatus, to the
\* value after the remote one in the order None -> Track -> Playlist -> None,
\* which the player then has, so that three such steps with no other writer
\* return to the starting value; a cycle_loop step taken while Unbound makes
\* no call and changes no player.
C13_CycleLoopSteps ==
    [][(op' = "cycle_loop") =>
          /\ (properties = None) => (exc' = "none" /\ calls' = <<>> /\ remote' = remote)
          /\ (properties # None /\ Answers(properties)) =>
                 LET l == remote[properties.service].LoopStatus
                 IN  /\ exc' = "none"
                     /\ calls' =
                           <<[service |-> properties.service, member |-> "Get",
                              args |-> <<"org.mpris.MediaPlayer2.Player", "LoopStatus">>],
                             [service |-> properties.service, member |-> "Set",
                              args |-> <<"org.mpris.MediaPlayer2.Player", "LoopStatus",
                                         NextLoop(l)>>]>>
                     /\ remote'[properties.service].LoopStatus = NextLoop(l)
                     /\ NextLoop(NextLoop(NextLoop(l))) = l]_vars

\* a cycle_loop on a live player that wrapped from Playlist to None
C13_Wrapped ==
    /\ op = "cycle_loop" /\ Active /\ Answers(properties) /\ exc = "none"
    /\ Len(calls) = 2 /\ calls[2].member = "Set" /\ calls[2].args[3] = "None"
    /\ remote[properties.service].LoopStatus = "None"
-----------------------------------------------------------------------------
(* C14 *)

\* C14: an activation attempt (activate_bus_app / activate_current_bus_app)
\* that fails because the service cannot be reached raises nothing and leaves
\* all three handles None, whether the controller was Unbound or Active before.
C14_FailedActivationUnbinds ==
    (/\ op \in {"activate_bus_app", "activate_current_bus_app"}
     /\ ~(bus_ok /\ Registered(CurrentService))) =>
        (exc = "none" /\ Unbound)

-----------------------------------------------------------------------------
(* C15 *)

\* C15: set_position makes a SetPosition call only when the controller is
\* Active and the metadata it reads carries a non-empty track id, and then
\* passes that id and the requested position; on a live player whose
\* Metadata carries no mpris:trackid it raises nothing and makes no
\* SetPosition call, and while Unbound it makes no call at all.
C15_SeekNeedsTrackId ==
    (op = "set_position") =>
        /\ (interface = None) => (exc = "none" /\ calls = <<>>)
        /\ \A i \in SetPositionCalls :
               /\ Active
               /\ calls[i].args[1] # ""
               /\ calls[i].args[1] = remote[interface.service].Metadata["mpris:trackid"]
               /\ calls[i].args[2] = int(arg)
        /\ (/\ Active /\ Answers(interface)
            /\ "mpris:trackid" \notin DOMAIN remote[interface.service].Metadata) =>
               (exc = "none" /\ SetPositionCalls = {})

-----------------------------------------------------------------------------
(* C16 *)

\* C16: in every reachable state, a handle that is not None is bound to the
\* service org.mpris.MediaPlayer2.<get_current_bus_app()>.
C16_HandlesOfCurrentIdentity ==
    \A h \in {proxy, interface, properties} :
        h # None => h.service = "org.mpris.MediaPlayer2." \o get_current_bus_app

\* activate_bus_app("vlc") with vlc registered left the handles on the service
\* of the current identity
C16_ActivatedOther ==
    /\ op = "activate_bus_app" /\ arg = "vlc" /\ arg # get_current_bus_app
    /\ bus_ok /\ Registered(VlcName) /\ Active

-----------------------------------------------------------------------------
(* C17 *)

\* C17: in every reachable state, also after an activation attempt that
\* failed, proxy, interface and properties are all None, or none of them is
\* and all three are bound to the same connection.
C17_HandlesWholesale ==
    \/ (proxy = None /\ interface = None /\ properties = None)
    \/ (/\ proxy # None /\ interface # None /\ properties # None
        /\ interface = proxy /\ properties = proxy)

\* an activation attempt that failed while the handles were bound
C17_FailedActivationWhileBound ==
    /\ op \in {"activate_bus_app", "activate_current_bus_app"}
    /\ ~BeganUnbound /\ ~Registered(CurrentService) /\ Active

-----------------------------------------------------------------------------
(* C18 *)

\* C18: at the end of construction and of every handleTriggerQuery the
\* controller agrees with the availability of the current identity: if it is
\* not available the three handles are None, no exception leaves the handler,
\* no call is made on a player and the empty query gets the "not running"
\* item and the "switch" command only; if it is available the three handles
\* are bound to the connection that owns the name now (a player that vanished
\* and reappeared is reconnected) and the command table is built, no
\* exception leaving the handler.
C18_QueryAgreesWithAvailability ==
    (op \in {"__init__", "handleTriggerQuery"}) =>
        /\ ~(bus_ok /\ Registered(CurrentService)) =>
               /\ Unbound /\ exc = "none" /\ calls = <<>>
               /\ (op = "handleTriggerQuery" /\ arg = "") =>
                      (/\ ret.tag = "list"
                       /\ ret.v = <<create_player_not_running_item,
                                     create_command_item("switch")>>)
        /\ (bus_ok /\ Registered(CurrentService)) =>
               /\ Active /\ Answers(proxy) /\ Answers(interface) /\ Answers(properties)
               /\ exc = "none"
               /\ (op = "handleTriggerQuery" /\ arg = "") => (ret.tag = "list" /\ Len(ret.v) = 9)

\* the part of C18 about an identity that is not available, and about a
\* query begun Unbound
C18_UnavailableOrBegunUnbound ==
    (op \in {"__init__", "handleTriggerQuery"}) =>
        /\ ~(bus_ok /\ Registered(CurrentService)) =>
               /\ Unbound /\ exc = "none" /\ calls = <<>>
               /\ (op = "handleTriggerQuery" /\ arg = "") =>
                      (/\ ret.tag = "list"
                       /\ ret.v = <<create_player_not_running_item,
                                     create_command_item("switch")>>)
        /\ (bus_ok /\ Registered(CurrentService) /\ BeganUnbound) =>
               /\ Active /\ Answers(proxy) /\ Answers(interface) /\ Answers(properties)
               /\ exc = "none"
               /\ (op = "handleTriggerQuery" /\ arg = "") => (ret.tag = "list" /\ Len(ret.v) = 9)

====
